---- MODULE Spec2Model ----
(***************************************************************************)
(* LZ77 codec of typescript-utils (namespace LZ77): encode_unlimited,      *)
(* encode, decode, dict_to_bin and bin_to_dict, modelled as the loops of   *)
(* the source.  A string is a sequence of UTF-16 code units, a token is    *)
(* <<distance, length, character>> where character is a string of length   *)
(* 0 or 1, and a bit string is a sequence of one-character strings.        *)
(***************************************************************************)
EXTENDS Integers, Sequences, FiniteSets, TLC

\* ------------------------------------------------------------------ bounds
MaxLen == 5          \* longest input string drawn from Alphabet
MaxWin == 2          \* largest window size tried besides the default
MaxTokens == 2       \* longest hand-made token sequence
MaxCopy == 16        \* longest copy length of a token sequence given to decode
MaxBits == 5         \* longest hand-made bit string
MaxCut == 3          \* most bits cut off the end of a written bit string
MaxIter == 12        \* most iterations of the loop of bin_to_dict followed

\* ------------------------------------------------------- program constants
DefaultBuffer == 255
HeaderBits == 2

\* --------------------------------------------------------- JavaScript values
\* NaN and undefined are values of their own, below every number the program
\* computes (the least is an offset of decode, above -2^25).
NaN == 0 - 2^30
Undefined == NaN - 1
\* The text String(undefined), which `prefix += undefined` appends.
UndefinedText == <<117, 110, 100, 101, 102, 105, 110, 101, 100>>
Pow24 == 2^24
Pow16 == 2^16

\* s[idx] of a string, idx counted from 0: undefined outside the string.
At(s, idx) ==
  IF idx # NaN /\ idx >= 0 /\ idx < Len(s) THEN s[idx + 1] ELSE Undefined

\* s[idx] || ""
OrEmpty(x) == IF x = Undefined THEN <<>> ELSE <<x>>

\* The string a value contributes to a concatenation.
ToStr(x) == IF x = Undefined THEN UndefinedText ELSE <<x>>

\* a % b of JavaScript for a >= 0: NaN when b is 0 or NaN.
JsMod(a, b) == IF b = NaN \/ b = 0 THEN NaN ELSE a % b

\* a + b of JavaScript numbers.
JsAdd(a, b) == IF a = NaN \/ b = NaN THEN NaN ELSE a + b

\* a - b of JavaScript numbers.
JsSub(a, b) == IF a = NaN \/ b = NaN THEN NaN ELSE a - b

\* -------------------------------------------------------------- match finder
\* The k loop: the k of the first mismatch below the limit, 0 when the loop
\* runs out without one (nothing is recorded then).
RECURSIVE FirstMismatch(_, _, _, _, _)
FirstMismatch(data, i, j, k, limit) ==
  IF k >= limit THEN 0
  ELSE IF At(data, i + k) # At(data, j + (k % (i - j))) THEN k
  ELSE FirstMismatch(data, i, j, k + 1, limit)

\* ScanCandidates replacing the best on an equal length too (>= for >).
RECURSIVE ScanCandidates_KeepsFarthest(_, _, _, _, _, _)
ScanCandidates_KeepsFarthest(data, i, j, searchLimit, lookAheadLimit, best) ==
  IF j < searchLimit THEN best
  ELSE LET k == IF At(data, j) # At(data, i) THEN 0
                ELSE FirstMismatch(data, i, j, 1, lookAheadLimit)
       IN ScanCandidates_KeepsFarthest(data, i, j - 1, searchLimit,
            lookAheadLimit, IF k > 0 /\ k >= best[2] THEN <<i - j, k>> ELSE best)

\* ScanCandidates taking the distance one too large (i - j + 1).
RECURSIVE ScanCandidates_DistanceOffByOne(_, _, _, _, _, _)
ScanCandidates_DistanceOffByOne(data, i, j, searchLimit, lookAheadLimit, best) ==
  IF j < searchLimit THEN best
  ELSE LET k == IF At(data, j) # At(data, i) THEN 0
                ELSE FirstMismatch(data, i, j, 1, lookAheadLimit)
       IN ScanCandidates_DistanceOffByOne(data, i, j - 1, searchLimit,
            lookAheadLimit, IF k > best[2] THEN <<i - j + 1, k>> ELSE best)

\* The j loop, from j down to searchLimit, carrying best = <<distance, length>>.
RECURSIVE ScanCandidates(_, _, _, _, _, _)
ScanCandidates(data, i, j, searchLimit, lookAheadLimit, best) ==
  IF j < searchLimit THEN best
  ELSE LET k == IF At(data, j) # At(data, i) THEN 0
                ELSE FirstMismatch(data, i, j, 1, lookAheadLimit)
       IN ScanCandidates(data, i, j - 1, searchLimit, lookAheadLimit,
                         IF k > best[2] THEN <<i - j, k>> ELSE best)

\* SearchLimit with the window one position too wide.
SearchLimit_OneTooFar(i, sb) == IF i - sb > 0 THEN i - sb - 1 ELSE 0

\* const searchLimit = i - searchBuffer > 0 ? i - searchBuffer : 0
SearchLimit(i, sb) == IF i - sb > 0 THEN i - sb ELSE 0

\* LookAheadLimit stopping one symbol before the end of the data.
LookAheadLimit_StopsEarly(data, i, lab) ==
  IF lab + 1 <= Len(data) - i THEN lab + 1 ELSE Len(data) - i - 1

\* LookAheadLimit letting k reach the end of the data.
LookAheadLimit_PastEnd(data, i, lab) ==
  IF lab + 1 <= Len(data) - i THEN lab + 1 ELSE Len(data) - i + 1

\* const lookAheadLimit = lookAheadBuffer + 1 <= data.length - i ? ... : ...
LookAheadLimit(data, i, lab) ==
  IF lab + 1 <= Len(data) - i THEN lab + 1 ELSE Len(data) - i

\* EmitToken taking the symbol at the cursor, not the one after the match.
EmitToken_SymbolAtCursor(data, i, best) ==
  IF best[2] > 0
    THEN <<best[1], best[2], OrEmpty(At(data, i))>>
    ELSE <<0, 0, ToStr(At(data, i))>>

\* The token one iteration of the outer loop pushes, given best.
EmitToken(data, i, best) ==
  IF best[2] > 0
    THEN <<best[1], best[2], OrEmpty(At(data, i + best[2]))>>
    ELSE <<0, 0, ToStr(At(data, i))>>

\* NextCursor stepping over one symbol more.
NextCursor_SkipsSymbol(i, best) == i + best[2] + 2

\* NextCursor without the loop's i++.
NextCursor_NoStep(i, best) == i + best[2]

\* The cursor after the iteration (i += best[1]; continue -> i++).
NextCursor(i, best) == i + best[2] + 1

\* const dict = [[0, 0, data[0] || ""]]
FirstToken(data) == <<0, 0, OrEmpty(At(data, 0))>>

\* The outer loop of encode_unlimited from cursor i on, dict being the tokens
\* pushed so far.
RECURSIVE EncodeUnlimitedFrom(_, _, _)
EncodeUnlimitedFrom(data, i, dict) ==
  IF i >= Len(data) THEN dict
  ELSE LET best == ScanCandidates(data, i, i - 1, 0, Len(data) - i, <<0, 0>>)
       IN EncodeUnlimitedFrom(data, NextCursor(i, best),
                              Append(dict, EmitToken(data, i, best)))

\* encode_unlimited(data) as one value.
encode_unlimited(data) == EncodeUnlimitedFrom(data, 1, <<FirstToken(data)>>)

\* ------------------------------------------------------------------ decoder
\* The j loop of decode: prefix += data[offset + (j % distance)], j < length.
RECURSIVE CopyPrefix(_, _, _, _, _)
CopyPrefix(data, offset, distance, length, j) ==
  IF length = NaN \/ j >= length THEN <<>>
  ELSE ToStr(At(data, JsAdd(offset, JsMod(j, distance))))
         \o CopyPrefix(data, offset, distance, length, j + 1)

\* The copy loop reading data[offset + j], without the wrap-around.
RECURSIVE CopyNoWrap(_, _, _, _)
CopyNoWrap(data, offset, length, j) ==
  IF length = NaN \/ j >= length THEN <<>>
  ELSE ToStr(At(data, JsAdd(offset, j))) \o CopyNoWrap(data, offset, length, j + 1)

DecodeToken_NoWrap(data, token) ==
  data \o CopyNoWrap(data, JsSub(Len(data), token[1]), token[2], 0) \o token[3]

\* One iteration of the token loop of decode: data += prefix + character.
DecodeToken(data, token) ==
  LET distance == token[1]
      length == token[2]
      character == token[3]
      offset == JsSub(Len(data), distance)
  IN data \o CopyPrefix(data, offset, distance, length, 0) \o character

\* ------------------------------------------------------------- binary codec
Bit(n) == IF n = 0 THEN "0" ELSE "1"

RECURSIVE Digits2(_)
Digits2(n) == IF n < 2 THEN <<Bit(n)>> ELSE Digits2(n \div 2) \o <<Bit(n % 2)>>

\* n.toString(2); NaN prints as the text NaN.
ToString2(n) == IF n = NaN THEN <<"N", "a", "N">> ELSE Digits2(n)

\* s.padStart(width, "0")
PadStart(s, width) ==
  IF Len(s) >= width THEN s ELSE [n \in 1..(width - Len(s)) |-> "0"] \o s

\* c.charCodeAt(0): NaN for the empty string.
CharCodeAt0(c) == IF Len(c) = 0 THEN NaN ELSE c[1]

\* String.fromCharCode(n): ToUint16, which sends NaN to 0.
FromCharCode(n) == IF n = NaN THEN <<0>> ELSE <<n % Pow16>>

\* s.substring(from, to) for from <= to, both clamped to the string.
Substring(s, from, to) ==
  LET lo == IF from > Len(s) THEN Len(s) ELSE from
      hi == IF to > Len(s) THEN Len(s) ELSE to
  IN SubSeq(s, lo + 1, hi)

\* The value of the longest prefix of binary digits, NaN when there is none.
RECURSIVE ParseDigits(_, _, _)
ParseDigits(s, n, acc) ==
  IF n > Len(s) \/ s[n] \notin {"0", "1"} THEN (IF n = 1 THEN NaN ELSE acc)
  ELSE ParseDigits(s, n + 1, 2 * acc + (IF s[n] = "1" THEN 1 ELSE 0))

\* Number.parseInt(s, 2)
ParseInt2(s) == ParseDigits(s, 1, 0)

Max2(a, b) == IF a >= b THEN a ELSE b

\* TokenMaxBin that leaves the character code out of the maximum.
TokenMaxBin_IgnoresCharacter(token) ==
  Max2(Len(ToString2(token[1])), Len(ToString2(token[2])))

\* Math.max(d.toString(2).length, l.toString(2).length, c.charCodeAt(0)...)
TokenMaxBin(token) ==
  Max2(Len(ToString2(token[1])),
       Max2(Len(ToString2(token[2])), Len(ToString2(CharCodeAt0(token[3])))))

\* The first loop of dict_to_bin: the largest digit count of the sequence.
RECURSIVE MaxBin(_, _, _)
MaxBin(dict, n, maxBin) ==
  IF n > Len(dict) THEN maxBin
  ELSE MaxBin(dict, n + 1, Max2(TokenMaxBin(dict[n]), maxBin))

\* BytesPerValue rounding down and adding one: a byte too many at multiples
\* of 8.
BytesPerValue_ExtraByte(dict) == (MaxBin(dict, 1, 0) \div 8) + 1

\* const bytes = Math.ceil(maxBin / 8)
BytesPerValue(dict) == (MaxBin(dict, 1, 0) + 7) \div 8

\* The three padded fields of one token.
TokenBits(token, bits) ==
  PadStart(ToString2(token[1]), bits)
    \o PadStart(ToString2(token[2]), bits)
    \o PadStart(ToString2(CharCodeAt0(token[3])), bits)

\* The second loop of dict_to_bin.
RECURSIVE AllTokenBits(_, _, _)
AllTokenBits(dict, n, bits) ==
  IF n > Len(dict) THEN <<>>
  ELSE TokenBits(dict[n], bits) \o AllTokenBits(dict, n + 1, bits)

\* let bin = bytes.toString(2).padStart(2, "0")
Header(bytes) == PadStart(ToString2(bytes), HeaderBits)

dict_to_bin(dict) ==
  LET bytes == BytesPerValue(dict)
      bits == 8 * bytes
  IN Header(bytes) \o AllTokenBits(dict, 1, bits)

\* const bytes = Number.parseInt(bin.substring(0, 2), 2); const bits = 8 * bytes
BinBits(bin) ==
  LET bytes == ParseInt2(Substring(bin, 0, HeaderBits))
  IN IF bytes = NaN THEN NaN ELSE 8 * bytes

\* The token bin_to_dict builds at read position i.
ReadToken(bin, i, bits) ==
  <<ParseInt2(Substring(bin, i, i + bits)),
    ParseInt2(Substring(bin, i + bits, i + 2 * bits)),
    FromCharCode(ParseInt2(Substring(bin, i + 2 * bits, i + 3 * bits)))>>

\* ReadInline taking the character from the field of the length.
ReadInline_CharacterFromLength(bin, i, bits) ==
  <<ParseInt2(Substring(bin, i, i + bits)),
    ParseInt2(Substring(bin, i + bits, i + 2 * bits)),
    FromCharCode(ParseInt2(Substring(bin, i + bits, i + 2 * bits)))>>

\* The distance, length and character decode_from_bin reads at position i.
ReadInline(bin, i, bits) ==
  <<ParseInt2(Substring(bin, i, i + bits)),
    ParseInt2(Substring(bin, i + bits, i + 2 * bits)),
    FromCharCode(ParseInt2(Substring(bin, i + 2 * bits, i + 3 * bits)))>>

\* One iteration of the loop of decode_from_bin: data += prefix + character.
DecodeInline(data, bin, i, bits) ==
  LET read == ReadInline(bin, i, bits)
      distance == read[1]
      length == read[2]
      character == read[3]
      offset == JsSub(Len(data), distance)
  IN data \o CopyPrefix(data, offset, distance, length, 0) \o character

\* ------------------------------------------------------------------- inputs
Alphabet == {97, 98}

\* "abcabcabc", a NUL, a string of code units that need two bytes, and
\* "abababb", whose repeat is longer than its period.
ScenarioInputs ==
  {<<97, 98, 99, 97, 98, 99, 97, 98, 99>>, <<0>>, <<0, 0, 0>>,
   <<300, 97, 300, 97, 98>>, <<97, 98, 97, 98, 97, 98, 98>>}

Inputs == (UNION {[1..n -> Alphabet] : n \in 0..MaxLen}) \cup ScenarioInputs

WindowSizes == (1..MaxWin) \cup {DefaultBuffer}

\* Hand-made tokens: literals, back-references, references past the start of
\* the output, the empty character, and fields of one to four bytes.
TokenPool ==
  ({0, 1, 2, 130} \X {0, 3} \X {<<>>, <<97>>})
    \cup {<<0, 0, <<0>>>>, <<0, 0, <<130>>>>, <<300, 0, <<97>>>>, <<1, 1, <<300>>>>,
          <<70000, 1, <<98>>>>, <<Pow24 - 1, 0, <<97>>>>,
          <<Pow24, 0, <<97>>>>, <<1, Pow24, <<97>>>>}

TokenSeqs == UNION {[1..n -> TokenPool] : n \in 0..MaxTokens}

\* Hand-made bit strings: every string of up to MaxBits bits, and the bit
\* strings of a few token sequences with up to MaxCut bits cut off the end.
WrittenTokens == {<<0, 0, <<97>>>>, <<1, 2, <<98>>>>, <<300, 0, <<97>>>>}

WrittenSeqs == UNION {[1..n -> WrittenTokens] : n \in 1..2}

BitInputs ==
  (UNION {[1..n -> {"0", "1"}] : n \in 0..MaxBits})
    \cup {SubSeq(dict_to_bin(t), 1, Len(dict_to_bin(t)) - c) :
            t \in WrittenSeqs, c \in 0..MaxCut}

\* -------------------------------------------------------------------- state
VARIABLES
  origin,           \* what the run starts from: a call of an encoder, or tokens
  pc,               \* the function running, or the value just returned
  data,             \* the encoder's input string
  searchBuffer,     \* encode's second parameter
  lookAheadBuffer,  \* encode's third parameter
  i,                \* the loop variable of the running function
  dict,             \* the token sequence: the encoder's, or the hand-made one
  bin,              \* dict_to_bin(dict)
  dict2,            \* the token sequence bin_to_dict builds from bin
  src,              \* which token sequence decode was called with
  out,              \* decode's local string `data`
  error,            \* the exception thrown, "none" while none was
  out2,             \* decode_from_bin's local string `data`
  \* EventEmitter
  self,             \* the emitter object
  _events,          \* its field _events: type -> array of listeners
  phase,            \* "idle", or "forEach" while emit runs its forEach
  call,             \* the arguments of the last emit: [type, args]
  array,            \* the array forEach was called on, as long as at the call
  index,            \* the index forEach is at
  invoked,          \* the listener calls the running emit made, in order
  late,             \* whether one of them was of a listener taken off the
                    \* type since the emit was called
  registered,       \* type -> the registrations in force, in order of on
  removed,          \* <<type, listener, whether registered then>> of the
                    \* listeners taken off a type and not put on since
  expected,         \* registered[type] when the last emit was called
  removedAtCall,    \* removed, of the type emitted, when emit was called
  \* TimeValue and TimeDuration
  cls,              \* the class of the object
  time,             \* its fields _hours, _minutes and _seconds
  op,               \* the last operation on it and its arguments
  before,           \* its fields before that operation
  ops,              \* the number of operations on it so far
  undoes,           \* whether that operation was component += n right after
                    \* component += -n on the same component
  \* CircularBuffer
  _capacity,        \* the constructor's argument
  _buffer,          \* the array, Undefined where nothing was stored
  _position,        \* the index the next value is stored at
  _full,            \* whether the array has been filled once
  pushed,           \* the values pushed since the last reset, oldest first
  resets            \* the number of resets so far

codecVars == <<origin, pc, data, searchBuffer, lookAheadBuffer, i, dict, bin,
               dict2, src, out, error, out2>>

emitterVars == <<self, _events, phase, call, array, index, invoked, late,
                 registered, removed, expected, removedAtCall>>

timeVars == <<cls, time, op, before, ops, undoes>>

bufferVars == <<_capacity, _buffer, _position, _full, pushed, resets>>

vars == <<codecVars, emitterVars, timeVars, bufferVars>>

Encoders == {"encode_unlimited", "encode"}

\* The token sequence decode runs on.
DecodeInput == IF src = "dict2" THEN dict2 ELSE dict

\* Each specification follows one object; the others rest at these values.
CodecIdle ==
  /\ origin = "none" /\ pc = "none" /\ data = <<>>
  /\ searchBuffer = 0 /\ lookAheadBuffer = 0 /\ i = 0
  /\ dict = <<>> /\ bin = <<>> /\ dict2 = <<>>
  /\ src = "none" /\ out = <<>> /\ error = "none" /\ out2 = <<>>

NoCall == [type |-> "none", args |-> "none"]

EmitterIdle ==
  /\ self = "none" /\ _events = <<>> /\ phase = "idle" /\ call = NoCall
  /\ array = <<>> /\ index = 0 /\ invoked = <<>> /\ late = FALSE
  /\ registered = <<>> /\ removed = {} /\ expected = <<>>
  /\ removedAtCall = {}

Midnight == [hours |-> 0, minutes |-> 0, seconds |-> 0]

NoValue ==
  [kind |-> "none", text |-> <<>>, hours |-> 0, minutes |-> 0, seconds |-> 0]

NoOp == [name |-> "none", component |-> "none", n |-> 0, value |-> NoValue]

TimeIdle ==
  /\ cls = "none" /\ time = Midnight /\ op = NoOp /\ before = Midnight
  /\ ops = 0 /\ undoes = FALSE

BufferIdle ==
  /\ _capacity = 0 /\ _buffer = <<>> /\ _position = 0 /\ _full = FALSE
  /\ pushed = <<>> /\ resets = 0

InitEncoder ==
  /\ origin \in Encoders
  /\ data \in Inputs
  /\ searchBuffer \in (IF origin = "encode" THEN WindowSizes ELSE {0})
  /\ lookAheadBuffer \in (IF origin = "encode" THEN WindowSizes ELSE {0})
  /\ pc = "call"
  /\ dict = <<>>
  /\ bin = <<>>

InitTokens ==
  /\ origin = "tokens"
  /\ data = <<>>
  /\ searchBuffer = 0
  /\ lookAheadBuffer = 0
  /\ pc = "dict"
  /\ dict \in TokenSeqs
  /\ bin = <<>>

InitBits ==
  /\ origin = "bits"
  /\ data = <<>>
  /\ searchBuffer = 0
  /\ lookAheadBuffer = 0
  /\ pc = "bits"
  /\ dict = <<>>
  /\ bin \in BitInputs

Init ==
  /\ (InitEncoder \/ InitTokens \/ InitBits)
  /\ i = 0
  /\ dict2 = <<>>
  /\ src = "none"
  /\ out = <<>>
  /\ error = "none"
  /\ out2 = <<>>
  /\ EmitterIdle
  /\ TimeIdle
  /\ BufferIdle

\* ------------------------------------------------------------------ encoders
encode_unlimited_call ==
  /\ pc = "call" /\ origin = "encode_unlimited"
  /\ dict' = <<FirstToken(data)>>
  /\ i' = 1
  /\ pc' = "encode_unlimited"
  /\ UNCHANGED <<origin, data, searchBuffer, lookAheadBuffer, bin, dict2, src,
                 out, error>>
  /\ UNCHANGED <<out2, emitterVars, timeVars, bufferVars>>

\* One iteration of the outer loop of encode_unlimited.
encode_unlimited_loop ==
  /\ pc = "encode_unlimited" /\ i < Len(data)
  /\ LET best == ScanCandidates(data, i, i - 1, 0, Len(data) - i, <<0, 0>>)
     IN /\ dict' = Append(dict, EmitToken(data, i, best))
        /\ i' = NextCursor(i, best)
  /\ UNCHANGED <<origin, pc, data, searchBuffer, lookAheadBuffer, bin, dict2,
                 src, out, error>>
  /\ UNCHANGED <<out2, emitterVars, timeVars, bufferVars>>

encode_unlimited_return ==
  /\ pc = "encode_unlimited" /\ i >= Len(data)
  /\ pc' = "dict"
  /\ UNCHANGED <<origin, data, searchBuffer, lookAheadBuffer, i, dict, bin,
                 dict2, src, out, error>>
  /\ UNCHANGED <<out2, emitterVars, timeVars, bufferVars>>

encode_call ==
  /\ pc = "call" /\ origin = "encode"
  /\ dict' = <<FirstToken(data)>>
  /\ i' = 1
  /\ pc' = "encode"
  /\ UNCHANGED <<origin, data, searchBuffer, lookAheadBuffer, bin, dict2, src,
                 out, error>>
  /\ UNCHANGED <<out2, emitterVars, timeVars, bufferVars>>

\* One iteration of the outer loop of encode.
encode_loop ==
  /\ pc = "encode" /\ i < Len(data)
  /\ LET best == ScanCandidates(data, i, i - 1, SearchLimit(i, searchBuffer),
                                LookAheadLimit(data, i, lookAheadBuffer),
                                <<0, 0>>)
     IN /\ dict' = Append(dict, EmitToken(data, i, best))
        /\ i' = NextCursor(i, best)
  /\ UNCHANGED <<origin, pc, data, searchBuffer, lookAheadBuffer, bin, dict2,
                 src, out, error>>
  /\ UNCHANGED <<out2, emitterVars, timeVars, bufferVars>>

encode_return ==
  /\ pc = "encode" /\ i >= Len(data)
  /\ pc' = "dict"
  /\ UNCHANGED <<origin, data, searchBuffer, lookAheadBuffer, i, dict, bin,
                 dict2, src, out, error>>
  /\ UNCHANGED <<out2, emitterVars, timeVars, bufferVars>>

\* ------------------------------------------------------------- binary codec
dict_to_bin_call ==
  /\ pc = "dict"
  /\ bin' = dict_to_bin(dict)
  /\ pc' = "bin"
  /\ UNCHANGED <<origin, data, searchBuffer, lookAheadBuffer, i, dict, dict2,
                 src, out, error>>
  /\ UNCHANGED <<out2, emitterVars, timeVars, bufferVars>>

bin_to_dict_call ==
  /\ pc \in {"bin", "bits"}
  /\ dict2' = <<>>
  /\ i' = HeaderBits
  /\ pc' = "bin_to_dict"
  /\ UNCHANGED <<origin, data, searchBuffer, lookAheadBuffer, dict, bin, src,
                 out, error>>
  /\ UNCHANGED <<out2, emitterVars, timeVars, bufferVars>>

\* One iteration of the loop of bin_to_dict; the model follows MaxIter of them.
bin_to_dict_loop ==
  /\ pc = "bin_to_dict" /\ i # NaN /\ i < Len(bin)
  /\ Len(dict2) < MaxIter
  /\ dict2' = Append(dict2, ReadToken(bin, i, BinBits(bin)))
  /\ i' = JsAdd(i, IF BinBits(bin) = NaN THEN NaN ELSE BinBits(bin) * 3)
  /\ UNCHANGED <<origin, pc, data, searchBuffer, lookAheadBuffer, dict, bin,
                 src, out, error>>
  /\ UNCHANGED <<out2, emitterVars, timeVars, bufferVars>>

bin_to_dict_return ==
  /\ pc = "bin_to_dict" /\ (i = NaN \/ i >= Len(bin))
  /\ pc' = "dict2"
  /\ UNCHANGED <<origin, data, searchBuffer, lookAheadBuffer, i, dict, bin,
                 dict2, src, out, error>>
  /\ UNCHANGED <<out2, emitterVars, timeVars, bufferVars>>

\* ------------------------------------------------------------------ decoder
\* decode(dict) or decode(bin_to_dict(bin)); copy lengths are capped by MaxCopy.
decode_call ==
  /\ pc \in {"dict", "dict2"}
  /\ \A n \in 1..Len(IF pc = "dict2" THEN dict2 ELSE dict) :
       (IF pc = "dict2" THEN dict2 ELSE dict)[n][2] <= MaxCopy
  /\ src' = pc
  /\ out' = <<>>
  /\ i' = 0
  /\ pc' = "decode"
  /\ UNCHANGED <<origin, data, searchBuffer, lookAheadBuffer, dict, bin, dict2,
                 error>>
  /\ UNCHANGED <<out2, emitterVars, timeVars, bufferVars>>

\* One iteration of the token loop of decode.
decode_loop ==
  /\ pc = "decode" /\ i < Len(DecodeInput)
  /\ out' = DecodeToken(out, DecodeInput[i + 1])
  /\ i' = i + 1
  /\ UNCHANGED <<origin, pc, data, searchBuffer, lookAheadBuffer, dict, bin,
                 dict2, src, error>>
  /\ UNCHANGED <<out2, emitterVars, timeVars, bufferVars>>

decode_return ==
  /\ pc = "decode" /\ i >= Len(DecodeInput)
  /\ pc' = "done"
  /\ UNCHANGED <<origin, data, searchBuffer, lookAheadBuffer, i, dict, bin,
                 dict2, src, out, error>>
  /\ UNCHANGED <<out2, emitterVars, timeVars, bufferVars>>

\* decode_from_bin(bin), of a hand-made bit string, or of the bit string that
\* bin_to_dict and decode were run on before.
decode_from_bin_call ==
  /\ \/ pc = "bits"
     \/ pc = "done" /\ src = "dict2" /\ origin # "tokens"
  /\ out2' = <<>>
  /\ i' = HeaderBits
  /\ pc' = "decode_from_bin"
  /\ UNCHANGED <<origin, data, searchBuffer, lookAheadBuffer, dict, bin, dict2,
                 src, out, error>>
  /\ UNCHANGED <<emitterVars, timeVars, bufferVars>>

\* One iteration of the loop of decode_from_bin; with fields of 0 bits the
\* model follows MaxIter of them.
decode_from_bin_loop ==
  /\ pc = "decode_from_bin" /\ i < Len(bin)
  /\ BinBits(bin) = 0 => Len(out2) < MaxIter
  /\ out2' = DecodeInline(out2, bin, i, BinBits(bin))
  /\ i' = i + BinBits(bin) * 3
  /\ UNCHANGED <<origin, pc, data, searchBuffer, lookAheadBuffer, dict, bin,
                 dict2, src, out, error>>
  /\ UNCHANGED <<emitterVars, timeVars, bufferVars>>

decode_from_bin_return ==
  /\ pc = "decode_from_bin" /\ i >= Len(bin)
  /\ pc' = "done2"
  /\ UNCHANGED <<origin, data, searchBuffer, lookAheadBuffer, i, dict, bin,
                 dict2, src, out, error, out2>>
  /\ UNCHANGED <<emitterVars, timeVars, bufferVars>>

Next ==
  \/ encode_unlimited_call
  \/ encode_unlimited_loop
  \/ encode_unlimited_return
  \/ encode_call
  \/ encode_loop
  \/ encode_return
  \/ dict_to_bin_call
  \/ bin_to_dict_call
  \/ bin_to_dict_loop
  \/ bin_to_dict_return
  \/ decode_call
  \/ decode_loop
  \/ decode_return
  \/ decode_from_bin_call
  \/ decode_from_bin_loop
  \/ decode_from_bin_return

Spec == Init /\ [][Next]_vars

\* ------------------------------------------------------------------- claims
TokensOf(seq) == {seq[n] : n \in 1..Len(seq)}

IsBackReference(token) == token[1] >= 1 /\ token[2] >= 1

\* C1: decode(encode_unlimited(d)) = d and decode(encode(d, w1, w2)) = d for
\* every input string d, the empty one included, and all positive w1, w2.
C1_RoundTrip ==
  (pc = "done" /\ origin \in Encoders /\ src = "dict") => out = data

\* Both encoders' outputs are decoded, one of them holding a back-reference
\* whose copy is longer than its distance.
C1_Witness ==
  /\ pc = "done" /\ origin = "encode" /\ src = "dict"
  /\ searchBuffer <= MaxWin /\ lookAheadBuffer = DefaultBuffer
  /\ \E t \in TokensOf(dict) : t[1] >= 1 /\ t[2] > t[1]
  /\ out = data

\* C2 (as claimed): bin_to_dict(dict_to_bin(t)) is t for every token sequence
\* t an encoder returns, the one for the empty input included.
C2_SerializeRoundTrip ==
  (pc = "dict2" /\ origin \in Encoders) => dict2 = dict

\* C3 (as claimed): decode(bin_to_dict(dict_to_bin(encode(d)))) = d for every
\* input string d, the empty one included.
C3_EndToEnd ==
  (pc = "done" /\ origin = "encode" /\ src = "dict2"
     /\ searchBuffer = DefaultBuffer /\ lookAheadBuffer = DefaultBuffer)
    => out = data

\* C4 (as claimed): an extension that reaches the end of the data without a
\* mismatch is still recorded, so encode_unlimited("abcabcabc") emits a
\* distance-3 back-reference at cursor position 3.
C4_MatchToEndRecorded ==
  (pc = "dict" /\ origin = "encode_unlimited"
     /\ data = <<97, 98, 99, 97, 98, 99, 97, 98, 99>>)
    => (Len(dict) >= 4 /\ dict[4][1] = 3 /\ dict[4][2] >= 1)

\* C5 (as claimed): encode_unlimited("aaaa") returns [(0,0,'a'), (1,3,'')].
C5_RunOfFour ==
  (pc = "dict" /\ origin = "encode_unlimited" /\ data = <<97, 97, 97, 97>>)
    => dict = << <<0, 0, <<97>>>>, <<1, 3, <<>>>> >>

\* The number of symbols the first n tokens stand for.
RECURSIVE SpanLength(_, _)
SpanLength(tokens, n) ==
  IF n = 0 THEN 0
  ELSE SpanLength(tokens, n - 1) + tokens[n][2] + Len(tokens[n][3])

\* Token n refers further back than the output reconstructed before it.
CorruptReference(tokens, n) == tokens[n][1] > SpanLength(tokens, n - 1)

\* C6 (as claimed): decode reports a corrupt-stream error once it has
\* processed a token whose distance exceeds the output reconstructed so far.
C6_CorruptStreamReported ==
  (pc \in {"decode", "done"}
     /\ \E n \in 1..Len(DecodeInput) : n <= i /\ CorruptReference(DecodeInput, n))
    => error = "corrupt stream"

\* A distance, length or symbol code that needs more than three bytes.
FieldOverflows(token) ==
  token[1] >= Pow24 \/ token[2] >= Pow24 \/ CharCodeAt0(token[3]) >= Pow24

\* C7 (as claimed): dict_to_bin fails with a field-overflow error for every
\* token sequence holding a field >= 2^24.
C7_OverflowRejected ==
  (pc = "bin" /\ \E t \in TokensOf(dict) : FieldOverflows(t))
    => error = "field overflow"

\* C8: every token of encode(d, w1, w2) has distance <= w1 and
\* length <= w2 + 1.
C8_WindowBound ==
  origin = "encode" =>
    \A t \in TokensOf(dict) : t[1] <= searchBuffer /\ t[2] <= lookAheadBuffer + 1

\* encode returned a back-reference that reaches as far back as a small
\* search window allows, from an input longer than the window.
C8_Witness ==
  /\ pc = "dict" /\ origin = "encode"
  /\ searchBuffer <= MaxWin /\ lookAheadBuffer <= MaxWin
  /\ Len(data) > searchBuffer + lookAheadBuffer
  /\ \E t \in TokensOf(dict) : t[1] = searchBuffer /\ t[2] = lookAheadBuffer

\* The values of all distances, lengths and symbol codes of a sequence.
FieldValues(tokens) ==
  UNION {{t[1], t[2]} \cup {t[3][n] : n \in 1..Len(t[3])} : t \in TokensOf(tokens)}

LargestField(tokens) ==
  CHOOSE v \in FieldValues(tokens) : \A w \in FieldValues(tokens) : w <= v

\* The header text of a byte-group count.
HeaderText(B) ==
  CASE B = 0 -> <<"0", "0">>
    [] B = 1 -> <<"0", "1">>
    [] B = 2 -> <<"1", "0">>
    [] B = 3 -> <<"1", "1">>
    [] OTHER -> <<"1", "0", "0">>

\* bin is the header of B followed by three fields of 8*B bits per token.
WrittenWith(B) ==
  /\ Len(bin) = Len(HeaderText(B)) + 3 * 8 * B * Len(dict)
  /\ SubSeq(bin, 1, Len(HeaderText(B))) = HeaderText(B)

HasSymbols(tokens) == \A t \in TokensOf(tokens) : Len(t[3]) = 1

BitLength(v) == CHOOSE n \in 0..30 : v < 2^n /\ (n = 0 \/ v >= 2^(n - 1))

\* C10 (as claimed): B = ceil(maxBits / 8) with maxBits the bit-length of the
\* largest field value, the bit-length of 0 being 0.
C10_BytesFromBitLength ==
  (pc = "bin" /\ dict # <<>>) =>
    WrittenWith((BitLength(LargestField(dict)) + 7) \div 8)

\* The number of binary digits of a value, one for 0.
DigitCount(v) == IF v = 0 THEN 1 ELSE BitLength(v)

\* The digits a token asks for; an empty symbol counts as three.
TokenDigits(t) ==
  LET ds == {DigitCount(t[1]), DigitCount(t[2])}
              \cup {IF Len(t[3]) = 0 THEN 3 ELSE DigitCount(t[3][1])}
  IN CHOOSE v \in ds : \A w \in ds : w <= v

MaxDigits(tokens) ==
  LET ds == {TokenDigits(t) : t \in TokensOf(tokens)} \cup {0}
  IN CHOOSE v \in ds : \A w \in ds : w <= v

\* C10 (amended): B = ceil(maxBits / 8) where maxBits is the largest number of
\* binary digits among all distances, lengths and symbol codes, the value 0
\* having one digit and an empty symbol counting as three; B = 0 only for the
\* empty sequence.
C10_BytesFromDigitCount ==
  pc = "bin" => WrittenWith((MaxDigits(dict) + 7) \div 8)

\* A sequence whose fields are all 0 was written with B = 1.
C10_Witness ==
  /\ pc = "bin" /\ dict # <<>>
  /\ HasSymbols(dict) /\ LargestField(dict) = 0
  /\ WrittenWith(1)

\* The field width the header of bin announces.
HeaderB == ParseInt2(Substring(bin, 0, HeaderBits))

\* The bits after the header are not a whole number of tokens.
PartialTrailingToken ==
  /\ Len(bin) >= HeaderBits /\ HeaderB >= 1
  /\ (Len(bin) - HeaderBits) % (3 * 8 * HeaderB) # 0

\* C11 (as claimed): bin_to_dict reports a truncation error for every bit
\* string whose length after the header is not a whole multiple of 3*8*B bits.
C11_TruncationReported ==
  (pc = "dict2" /\ PartialTrailingToken) => error = "truncated stream"

\* The window of the encoder running, at cursor c.
WindowStart(c) ==
  IF origin = "encode" /\ c - searchBuffer > 0 THEN c - searchBuffer ELSE 0

WindowLength(c) ==
  IF origin = "encode" /\ lookAheadBuffer + 1 < Len(data) - c
    THEN lookAheadBuffer + 1 ELSE Len(data) - c

\* The <<distance, length>> pairs recorded at cursor c: source positions of the
\* window whose cyclic extension agrees for k symbols and then meets a
\* mismatch at k, inside the lookahead.
RecordedAt(c) ==
  {<<c - j, k>> : <<j, k>> \in
     {jk \in (WindowStart(c)..(c - 1)) \X (1..(WindowLength(c) - 1)) :
        /\ \A m \in 0..(jk[2] - 1) :
             data[c + m + 1] = data[jk[1] + (m % (c - jk[1])) + 1]
        /\ data[c + jk[2] + 1] # data[jk[1] + (jk[2] % (c - jk[1])) + 1]}}

\* t is the longest of the recorded pairs, the nearest among the longest.
BestOf(records, t) ==
  /\ <<t[1], t[2]>> \in records
  /\ \A r \in records : r[2] < t[2] \/ (r[2] = t[2] /\ r[1] >= t[1])

\* C12: at every cursor position i >= 1 the encoder emits the longest match
\* recorded among the candidates of the window, the nearest among equally long
\* ones, and the literal (0, 0, data[i]) exactly when none was recorded.
MatchStep ==
  (pc \in Encoders /\ pc' = pc) =>
    LET t == dict'[Len(dict')]
    IN IF RecordedAt(i) = {}
         THEN t = <<0, 0, <<data[i + 1]>>>>
         ELSE BestOf(RecordedAt(i), t)

LastCursor == i - dict[Len(dict)][2] - 1

DecodeStep ==
  (pc = "decode" /\ pc' = "decode") =>
    LET t == DecodeInput[i + 1]
        D == t[1]
        L == t[2]
        n == Len(out)
    IN (D >= 1 /\ L >= 0 /\ n >= D) =>
         (/\ out' = out \o [j \in 1..L |-> out[n - D + ((j - 1) % D) + 1]] \o t[3]
          /\ Len(out') = n + L + Len(t[3]))

C13_CyclicCopy == [][DecodeStep]_vars

\* decode has just replayed a back-reference of distance 2 and length 4.
C13_Witness ==
  /\ pc = "decode" /\ i >= 1 /\ i <= Len(DecodeInput)
  /\ DecodeInput[i][1] = 2 /\ DecodeInput[i][2] = 4
  /\ \A n \in 1..i : ~CorruptReference(DecodeInput, n)
  /\ Len(out) = SpanLength(DecodeInput, i)

\* The symbols of the first n tokens, one after the other.
RECURSIVE SymbolsOf(_, _)
SymbolsOf(tokens, n) ==
  IF n = 0 THEN <<>> ELSE SymbolsOf(tokens, n - 1) \o tokens[n][3]

\* C14 (as claimed): for a token whose distance is 0, whatever its length,
\* decode appends nothing for the copy and only the token's symbol.
C14_DistanceZeroCopiesNothing ==
  (pc \in {"decode", "done"} /\ i <= Len(DecodeInput)
     /\ \A n \in 1..i : DecodeInput[n][1] = 0 /\ DecodeInput[n][2] >= 0)
    => out = SymbolsOf(DecodeInput, i)

\* C15: every token an encoder returns is a pure literal (distance 0, length
\* 0) or a back-reference with distance >= 1 and length >= 1 whose distance
\* does not exceed the number of input symbols consumed before the token.
C15_TokenShape ==
  origin \in Encoders =>
    \A n \in 1..Len(dict) :
      \/ dict[n][1] = 0 /\ dict[n][2] = 0
      \/ /\ dict[n][1] >= 1 /\ dict[n][2] >= 1
         /\ dict[n][1] <= SpanLength(dict, n - 1)

\* An encoder returned a back-reference that reaches back to the first symbol,
\* next to literals.
C15_Witness ==
  /\ pc = "dict" /\ origin \in Encoders
  /\ \E n \in 2..Len(dict) :
       /\ IsBackReference(dict[n]) /\ dict[n][1] >= 2
       /\ dict[n][1] = SpanLength(dict, n - 1)

\* C16: the encoders terminate: every iteration of the outer loop moves the
\* cursor forward by at least 1, and once i >= data.length the loop ends and
\* the function returns.
EncoderStep ==
  pc \in Encoders =>
    \/ pc' = pc /\ i < Len(data) /\ i' >= i + 1 /\ i' <= Len(data) + 1
    \/ pc' = "dict" /\ i >= Len(data)

C16_CursorAdvances ==
  [](pc \in Encoders => ENABLED Next) /\ [][EncoderStep]_vars

\* An encoder returned after fewer iterations than input symbols: one of them
\* moved the cursor by more than 1.
C16_Witness ==
  /\ pc = "dict" /\ origin \in Encoders
  /\ Len(data) >= MaxLen /\ i >= Len(data)
  /\ Len(dict) < Len(data)

\* C21 (as claimed): bin_to_dict ignores the bits after the last whole token:
\* for a bit string of length n with header B >= 1 it returns exactly
\* floor((n - 2) / (24 * B)) tokens.
C21_TrailingBitsIgnored ==
  (pc = "dict2" /\ Len(bin) >= HeaderBits /\ HeaderB >= 1) =>
    Len(dict2) = (Len(bin) - HeaderBits) \div (3 * 8 * HeaderB)

\* The sum of length + 1 over the first n tokens.
RECURSIVE Covered(_, _)
Covered(tokens, n) ==
  IF n = 0 THEN 0 ELSE Covered(tokens, n - 1) + tokens[n][2] + 1

\* C22: a back-reference emitted at cursor c carries the symbol data[c + length]
\* and the cursor moves on to c + length + 1, so for a non-empty input the sum
\* of length + 1 over the tokens emitted is the cursor, and is data.length
\* when the encoder returns.
C22_TokensPartitionInput ==
  (origin \in Encoders /\ pc \in Encoders \cup {"dict"} /\ data # <<>>) =>
    /\ Covered(dict, Len(dict)) = i
    /\ \A n \in 2..Len(dict) :
         dict[n][2] > 0 =>
           dict[n][3] = <<data[Covered(dict, n - 1) + dict[n][2] + 1]>>
    /\ (pc = "dict" => i = Len(data))

\* An encoder returned a back-reference of length 2 or more in the middle of
\* its tokens.
C22_Witness ==
  /\ pc = "dict" /\ origin \in Encoders
  /\ Len(dict) >= 3
  /\ dict[2][2] >= 2
  /\ Covered(dict, Len(dict)) = Len(data)

\* Field f (0, 1 or 2) of token n in bin, for fields of the width of the header.
FieldText(n, f) ==
  LET bits == 8 * HeaderB
      start == HeaderBits + (3 * (n - 1) + f) * bits
  IN SubSeq(bin, start + 1, start + bits)

\* C23 (as claimed): for every token sequence an encoder returns, the one for
\* the empty input included, dict_to_bin gives a string of the characters 0
\* and 1 only, of length 2 + 3*8*B*|t|: the header, then per token the
\* distance, the length and the symbol code, each on 8*B bits.
C23_BinaryLayout ==
  (pc = "bin" /\ origin \in Encoders) =>
    /\ \A n \in 1..Len(bin) : bin[n] \in {"0", "1"}
    /\ Len(bin) = HeaderBits + 3 * 8 * HeaderB * Len(dict)
    /\ \A n \in 1..Len(dict) :
         /\ ParseInt2(FieldText(n, 0)) = dict[n][1]
         /\ ParseInt2(FieldText(n, 1)) = dict[n][2]
         /\ (Len(dict[n][3]) = 1 =>
               ParseInt2(FieldText(n, 2)) = dict[n][3][1])

ReadStep ==
  (pc \in {"bin_to_dict", "decode_from_bin"} /\ pc' = pc) => i' > i

\* C24 (as claimed): bin_to_dict and decode_from_bin return for every bit
\* string, one longer than 2 bits with the header of B = 0 included: every
\* iteration of their loops moves the read position forward.
C24_ReadPositionAdvances == [][ReadStep]_vars

\* C27: decode_from_bin(bin) returns the string decode(bin_to_dict(bin))
\* returns, for every bit string both are run on.
C27_InlineDecodeAgrees ==
  (pc = "done2" /\ src = "dict2") => out2 = out

\* Both were run on the bit string of an encoder's tokens, a back-reference
\* among them, and both returned the encoder's input.
C27_Witness ==
  /\ pc = "done2" /\ src = "dict2" /\ origin \in Encoders
  /\ \E n \in 1..Len(dict2) : dict2[n][1] >= 1 /\ dict2[n][2] >= 2
  /\ out2 = out /\ out = data

\* C25: for a non-empty input every token an encoder emits carries exactly one
\* symbol, the input symbol that ends the span the token stands for (so a
\* back-reference emitted at cursor c has c + length < data.length); the empty
\* symbol is only in the one token returned for the empty input.
C25_OneSymbolPerToken ==
  (origin \in Encoders /\ pc \in Encoders \cup {"dict"}) =>
    /\ data # <<>> =>
         \A n \in 1..Len(dict) :
           /\ Len(dict[n][3]) = 1
           /\ Covered(dict, n) <= Len(data)
           /\ dict[n][3][1] = data[Covered(dict, n)]
    /\ data = <<>> => dict = << <<0, 0, <<>>>> >>

\* An encoder returned tokens that end with a back-reference, whose symbol is
\* the last symbol of the input.
C25_Witness ==
  /\ pc = "dict" /\ origin \in Encoders
  /\ Len(dict) >= 2
  /\ IsBackReference(dict[Len(dict)])
  /\ dict[Len(dict)][3] = <<data[Len(data)]>>

\* C26: encode(d, w1, w2) returns the token sequence encode_unlimited(d)
\* returns whenever w1 >= |d| and w2 >= |d|.
C26_WideWindowsAgree ==
  (pc = "dict" /\ origin = "encode"
     /\ searchBuffer >= Len(data) /\ lookAheadBuffer >= Len(data))
    => dict = encode_unlimited(data)

\* encode returned, with windows longer than the input, the tokens of
\* encode_unlimited, a back-reference among them.
C26_Witness ==
  /\ pc = "dict" /\ origin = "encode"
  /\ searchBuffer >= Len(data) /\ lookAheadBuffer = DefaultBuffer
  /\ Len(data) >= MaxLen
  /\ \E t \in TokensOf(dict) : IsBackReference(t) /\ t[2] >= 2
  /\ dict = encode_unlimited(data)

\* ============================================================ EventEmitter
\* The class EventEmitter of modules/event-emitter: on, off and emit of one
\* emitter.  A listener is a function, named here by a string.  emit is
\* followed one callback of its forEach at a time; on and off may run between
\* two callbacks, which is what a listener calling them does.
MaxListeners == 3    \* most listeners the emitter holds at once

Types == {"open", "close"}
Listeners == {"f", "g"}
Args == {"x", "y"}

\* push that puts the listener in front.
Push_Front(list, listener) == <<listener>> \o list

\* array.push(listener)
Push(list, listener) == Append(list, listener)

\* filter that drops the first occurrence only.
RECURSIVE Filter_FirstOnly(_, _)
Filter_FirstOnly(list, listener) ==
  IF list = <<>> THEN <<>>
  ELSE IF Head(list) = listener THEN Tail(list)
  ELSE <<Head(list)>> \o Filter_FirstOnly(Tail(list), listener)

\* array.filter((savedListener) => savedListener !== listener)
Filter(list, listener) ==
  SelectSeq(list, LAMBDA savedListener : savedListener # listener)

\* forEach reading the array the type has now, length included.
Visited_Live(atCall, now) == now

\* The elements forEach visits: those the array it was called on held at the
\* call, whatever on and off do to the type meanwhile.
Visited(atCall, now) == atCall

\* this._events[type], undefined when the key is absent.
EventsOf(type) == IF type \in DOMAIN _events THEN _events[type] ELSE <<>>

\* Whether a registration of the listener for the type is in force.
IsRegistered(type, listener) ==
  \E n \in 1..Len(registered[type]) : registered[type][n] = listener

\* The number of listeners in the arrays of the types.
RECURSIVE Held(_)
Held(types) ==
  IF types = {} THEN 0
  ELSE LET type == CHOOSE t \in types : TRUE
       IN Len(EventsOf(type)) + Held(types \ {type})

InitEmitter ==
  /\ CodecIdle
  /\ TimeIdle
  /\ BufferIdle
  /\ self = "emitter"
  /\ _events = <<>>
  /\ phase = "idle"
  /\ call = NoCall
  /\ array = <<>>
  /\ index = 0
  /\ invoked = <<>>
  /\ late = FALSE
  /\ registered = [type \in Types |-> <<>>]
  /\ removed = {}
  /\ expected = <<>>
  /\ removedAtCall = {}

\* on(type, listener): the array is made when the key is absent, then pushed to.
on ==
  \E type \in Types, listener \in Listeners :
    /\ Held(Types) < MaxListeners
    /\ _events' = IF type \in DOMAIN _events
                    THEN [_events EXCEPT ![type] = Push(@, listener)]
                    ELSE _events @@ (type :> Push(<<>>, listener))
    /\ registered' = [registered EXCEPT ![type] = Append(@, listener)]
    /\ removed' = {r \in removed : <<r[1], r[2]>> # <<type, listener>>}
    /\ UNCHANGED <<self, phase, call, array, index, invoked, late, expected,
                   removedAtCall>>
    /\ UNCHANGED <<codecVars, timeVars, bufferVars>>

\* off(type, listener): the array is replaced by a filtered copy.
off ==
  \E type \in Types, listener \in Listeners :
    /\ _events' = IF type \in DOMAIN _events
                    THEN [_events EXCEPT ![type] = Filter(@, listener)]
                    ELSE _events
    /\ registered' = [registered EXCEPT
                        ![type] = SelectSeq(@, LAMBDA r : r # listener)]
    /\ removed' = {r \in removed : <<r[1], r[2]>> # <<type, listener>>}
                    \cup {<<type, listener,
                             IsRegistered(type, listener)
                               \/ <<type, listener, TRUE>> \in removed>>}
    /\ UNCHANGED <<self, phase, call, array, index, invoked, late, expected,
                   removedAtCall>>
    /\ UNCHANGED <<codecVars, timeVars, bufferVars>>

\* emit(type, args) up to the call of forEach, which fixes the array object
\* and the range of indices it visits.
emit_call ==
  \E type \in Types, args \in Args :
    /\ phase = "idle"
    /\ call' = [type |-> type, args |-> args]
    /\ array' = EventsOf(type)
    /\ index' = 0
    /\ invoked' = <<>>
    /\ late' = FALSE
    /\ phase' = "forEach"
    /\ expected' = registered[type]
    /\ removedAtCall' = {<<r[2], r[3]>> : r \in {q \in removed : q[1] = type}}
    /\ UNCHANGED <<self, _events, registered, removed>>
    /\ UNCHANGED <<codecVars, timeVars, bufferVars>>

\* One callback of forEach: listener.apply(this, data).
emit_forEach ==
  /\ phase = "forEach" /\ index < Len(Visited(array, EventsOf(call.type)))
  /\ invoked' = Append(invoked,
       [listener |-> Visited(array, EventsOf(call.type))[index + 1],
        this |-> self, args |-> call.args])
  /\ late' = (late \/ ~IsRegistered(call.type,
                 Visited(array, EventsOf(call.type))[index + 1]))
  /\ index' = index + 1
  /\ UNCHANGED <<self, _events, phase, call, array, registered, removed,
                 expected, removedAtCall>>
  /\ UNCHANGED <<codecVars, timeVars, bufferVars>>

emit_return ==
  /\ phase = "forEach" /\ index >= Len(Visited(array, EventsOf(call.type)))
  /\ phase' = "idle"
  /\ call' = NoCall
  /\ array' = <<>>
  /\ index' = 0
  /\ invoked' = <<>>
  /\ late' = FALSE
  /\ expected' = <<>>
  /\ removedAtCall' = {}
  /\ UNCHANGED <<self, _events, registered, removed>>
  /\ UNCHANGED <<codecVars, timeVars, bufferVars>>

NextEmitter ==
  \/ on
  \/ off
  \/ emit_call
  \/ emit_forEach
  \/ emit_return

SpecEmitter == InitEmitter /\ [][NextEmitter]_vars

\* C17: a listener taken off a type with off(type, listener), and not put on
\* again with on before an emit of that type is called, is invoked by no
\* callback of that emit.
C17_OffStopsInvocation ==
  \A n \in 1..Len(invoked), r \in removedAtCall : invoked[n].listener # r[1]

\* A finished emit that invoked a listener, called after off had taken a
\* registered listener off its type.
C17_Witness ==
  /\ phase = "forEach" /\ index >= Len(array)
  /\ Len(invoked) >= 1
  /\ \E r \in removedAtCall : r[2]

\* C18: emit(type, args) invokes the listeners registered for the type when it
\* was called, once per registration and in the order of registration, each
\* with the emitter as this and args as argument, and invokes nothing else.
C18_EmitInvokesRegistered ==
  phase = "forEach" =>
    /\ Len(invoked) <= Len(expected)
    /\ \A n \in 1..Len(invoked) :
         /\ invoked[n].listener = expected[n]
         /\ invoked[n].this = self
         /\ invoked[n].args = call.args
    /\ (index >= Len(array) => Len(invoked) = Len(expected))

\* A finished emit that invoked a listener registered twice, twice, while the
\* other type had only another listener.
C18_Witness ==
  /\ phase = "forEach" /\ index >= Len(array)
  /\ Len(invoked) = 2
  /\ invoked[1].listener = invoked[2].listener
  /\ \E type \in Types \ {call.type} :
       /\ registered[type] # <<>>
       /\ \A n \in 1..Len(registered[type]) :
            registered[type][n] # invoked[1].listener

\* The number of calls of the listener among the calls the emit made.
Calls(listener) ==
  Cardinality({n \in 1..Len(invoked) : invoked[n].listener = listener})

\* The number of registrations of the listener in force when emit was called.
RegisteredAtCall(listener) ==
  Cardinality({n \in 1..Len(expected) : expected[n] = listener})

\* C28: one emit(type) invokes exactly the listeners registered for the type
\* when it was called: a listener taken off during the dispatch is still
\* invoked in it, and one put on during the dispatch is not.
C28_DispatchSnapshot ==
  phase = "forEach" =>
    /\ \A listener \in Listeners : Calls(listener) <= RegisteredAtCall(listener)
    /\ index >= Len(array) =>
         \A listener \in Listeners : Calls(listener) = RegisteredAtCall(listener)

\* A finished emit that invoked a listener after off had taken it off the
\* type, and did not invoke the listener on had put on the type meanwhile.
C28_Witness ==
  /\ phase = "forEach" /\ index >= Len(array)
  /\ late
  /\ \E listener \in Listeners :
       /\ IsRegistered(call.type, listener)
       /\ RegisteredAtCall(listener) = 0
       /\ Calls(listener) = 0

\* ================================================ TimeValue and TimeDuration
\* The classes of time-value: one object, its constructor and from, its three
\* setters and set.  The fields are the record [hours, minutes, seconds]; a
\* time string is a sequence of one-character strings.
MaxOps == 3          \* most operations followed on one object

Classes == {"TimeValue", "TimeDuration"}
Components == {"hours", "minutes", "seconds"}

\* Math.floor(x / d) that rounds towards zero.
Floor_Truncating(x, d) == IF x < 0 THEN 0 - ((0 - x) \div d) ELSE x \div d

\* Math.floor(x / d) for d > 0
Floor(x, d) == x \div d

\* Math.abs(x)
Abs(x) == IF x < 0 THEN 0 - x ELSE x

\* set hours of TimeValue that stores hours of 24 and more as given.
TimeValue_hours_NoModulo(t, hours) ==
  IF hours < 0
    THEN LET modHours == Abs(hours) % 24
         IN [t EXCEPT !.hours = IF modHours > 0 THEN 24 - modHours ELSE 0]
  ELSE [t EXCEPT !.hours = hours]

\* set hours of TimeValue
TimeValue_hours(t, hours) ==
  IF hours < 0
    THEN LET modHours == Abs(hours) % 24
         IN [t EXCEPT !.hours = IF modHours > 0 THEN 24 - modHours ELSE 0]
  ELSE IF hours < 24 THEN [t EXCEPT !.hours = hours]
  ELSE [t EXCEPT !.hours = hours % 24]

\* set minutes of TimeValue; `this.hours += x` is the setter of hours.
TimeValue_minutes(t, minutes) ==
  IF minutes < 0
    THEN LET modMinutes == Abs(minutes) % 60
             u == [t EXCEPT
                     !.minutes = IF modMinutes > 0 THEN 60 - modMinutes ELSE 0]
         IN TimeValue_hours(u, u.hours + Floor(minutes, 60))
  ELSE IF minutes < 60 THEN [t EXCEPT !.minutes = minutes]
  ELSE LET u == [t EXCEPT !.minutes = minutes % 60]
       IN TimeValue_hours(u, u.hours + Floor(minutes, 60))

\* set seconds of TimeValue
TimeValue_seconds(t, seconds) ==
  IF seconds < 0
    THEN LET modSeconds == Abs(seconds) % 60
             u == [t EXCEPT
                     !.seconds = IF modSeconds > 0 THEN 60 - modSeconds ELSE 0]
         IN TimeValue_minutes(u, u.minutes + Floor(seconds, 60))
  ELSE IF seconds < 60 THEN [t EXCEPT !.seconds = seconds]
  ELSE LET u == [t EXCEPT !.seconds = seconds % 60]
       IN TimeValue_minutes(u, u.minutes + Floor(seconds, 60))

\* TimeDuration.reset()
reset(t) == Midnight

\* set hours of TimeDuration
TimeDuration_hours(t, hours) ==
  IF hours < 0 THEN reset(t) ELSE [t EXCEPT !.hours = hours]

\* set minutes of TimeDuration
TimeDuration_minutes(t, minutes) ==
  IF minutes < 0
    THEN LET modMinutes == Abs(minutes) % 60
             u == [t EXCEPT
                     !.minutes = IF modMinutes > 0 THEN 60 - modMinutes ELSE 0]
         IN TimeDuration_hours(u, u.hours + Floor(minutes, 60))
  ELSE IF minutes < 60 THEN [t EXCEPT !.minutes = minutes]
  ELSE LET u == [t EXCEPT !.minutes = minutes % 60]
       IN TimeDuration_hours(u, u.hours + Floor(minutes, 60))

\* set seconds of TimeDuration
TimeDuration_seconds(t, seconds) ==
  IF seconds < 0
    THEN LET modSeconds == Abs(seconds) % 60
             u == [t EXCEPT
                     !.seconds = IF modSeconds > 0 THEN 60 - modSeconds ELSE 0]
         IN TimeDuration_minutes(u, u.minutes + Floor(seconds, 60))
  ELSE IF seconds < 60 THEN [t EXCEPT !.seconds = seconds]
  ELSE LET u == [t EXCEPT !.seconds = seconds % 60]
       IN TimeDuration_minutes(u, u.minutes + Floor(seconds, 60))

\* The setter of a component of an object of class c.
Setter(c, component, t, x) ==
  IF c = "TimeValue"
    THEN CASE component = "hours" -> TimeValue_hours(t, x)
           [] component = "minutes" -> TimeValue_minutes(t, x)
           [] component = "seconds" -> TimeValue_seconds(t, x)
    ELSE CASE component = "hours" -> TimeDuration_hours(t, x)
           [] component = "minutes" -> TimeDuration_minutes(t, x)
           [] component = "seconds" -> TimeDuration_seconds(t, x)

\* value.split(":")
RECURSIVE Split(_)
Split(text) ==
  IF \A n \in 1..Len(text) : text[n] # ":" THEN <<text>>
  ELSE LET c == CHOOSE n \in 1..Len(text) :
                  text[n] = ":" /\ \A m \in 1..(n - 1) : text[m] # ":"
       IN <<SubSeq(text, 1, c - 1)>> \o Split(SubSeq(text, c + 1, Len(text)))

DecimalDigits == <<"0", "1", "2", "3", "4", "5", "6", "7", "8", "9">>

IsDigit(c) == \E d \in 1..Len(DecimalDigits) : DecimalDigits[d] = c

DigitValue(c) == (CHOOSE d \in 1..Len(DecimalDigits) : DecimalDigits[d] = c) - 1

\* The value of the longest prefix of decimal digits, NaN when there is none.
RECURSIVE ParseDecimal(_, _, _)
ParseDecimal(s, n, acc) ==
  IF n > Len(s) \/ ~IsDigit(s[n]) THEN (IF n = 1 THEN NaN ELSE acc)
  ELSE ParseDecimal(s, n + 1, 10 * acc + DigitValue(s[n]))

\* Number.parseInt(s) of a string of digits
ParseInt(s) == ParseDecimal(s, 1, 0)

\* parseTimeString(value): seconds are 0 when the third part is absent or empty.
parseTimeString(value) ==
  LET parts == Split(value)
      hours == parts[1]
      minutes == parts[2]
  IN IF Len(parts) >= 3 /\ parts[3] # <<>>
       THEN [hours |-> ParseInt(hours), minutes |-> ParseInt(minutes),
             seconds |-> ParseInt(parts[3])]
       ELSE [hours |-> ParseInt(hours), minutes |-> ParseInt(minutes),
             seconds |-> 0]

\* A time string, and a time object (seconds Undefined when it has none).
TimeText(text) ==
  [kind |-> "string", text |-> text, hours |-> 0, minutes |-> 0, seconds |-> 0]

TimeObject(hours, minutes, seconds) ==
  [kind |-> "object", text |-> <<>>, hours |-> hours, minutes |-> minutes,
   seconds |-> seconds]

\* typeof value === "string" ? parseTimeString(value) : value
Parsed(value) ==
  IF value.kind = "string" THEN parseTimeString(value.text)
  ELSE [hours |-> value.hours, minutes |-> value.minutes,
        seconds |-> value.seconds]

\* new TimeValue(hours, minutes, seconds) and new TimeDuration(...): the
\* fields start at 0, seconds default to 0, and the three setters run in turn.
constructor(c, hours, minutes, seconds) ==
  LET a == Setter(c, "hours", Midnight, hours)
      b == Setter(c, "minutes", a, minutes)
  IN Setter(c, "seconds", b, IF seconds = Undefined THEN 0 ELSE seconds)

\* TimeValue.from(value) and TimeDuration.from(value)
from(c, value) ==
  LET parsed == Parsed(value)
  IN constructor(c, parsed.hours, parsed.minutes, parsed.seconds)

\* set(value) of both classes
set(c, t, value) ==
  LET parsed == Parsed(value)
      a == Setter(c, "hours", t, parsed.hours)
      b == Setter(c, "minutes", a, parsed.minutes)
  IN IF parsed.seconds # Undefined THEN Setter(c, "seconds", b, parsed.seconds)
     ELSE b

\* "01:02:03", "23:59:59", "04:05", and objects with and without seconds.
Values ==
  {TimeText(<<"0", "1", ":", "0", "2", ":", "0", "3">>),
   TimeText(<<"2", "3", ":", "5", "9", ":", "5", "9">>),
   TimeText(<<"0", "4", ":", "0", "5">>),
   TimeObject(4, 5, Undefined),
   TimeObject(1, 2, 3),
   TimeObject(0, 0 - 1, 9),
   TimeObject(25, 61, 61)}

Deltas == {0 - 100000, 0 - 61, 0 - 1, 1, 61, 100000}

InitTime ==
  /\ CodecIdle
  /\ EmitterIdle
  /\ BufferIdle
  /\ cls \in Classes
  /\ \E value \in Values :
       /\ time = from(cls, value)
       /\ op = [name |-> "from", component |-> "none", n |-> 0,
                value |-> value]
  /\ before = Midnight
  /\ ops = 0
  /\ undoes = FALSE

\* from(value): a new object of the class takes the place of the one followed.
from_call ==
  \E value \in Values :
    /\ ops < MaxOps
    /\ time' = from(cls, value)
    /\ op' = [name |-> "from", component |-> "none", n |-> 0, value |-> value]
    /\ before' = time
    /\ ops' = ops + 1
    /\ undoes' = FALSE
    /\ UNCHANGED cls
    /\ UNCHANGED <<codecVars, emitterVars, bufferVars>>

\* object.set(value)
set_call ==
  \E value \in Values :
    /\ ops < MaxOps
    /\ time' = set(cls, time, value)
    /\ op' = [name |-> "set", component |-> "none", n |-> 0, value |-> value]
    /\ before' = time
    /\ ops' = ops + 1
    /\ undoes' = FALSE
    /\ UNCHANGED cls
    /\ UNCHANGED <<codecVars, emitterVars, bufferVars>>

\* object.component += n: the getter, the sum, then the setter.
assign ==
  \E component \in Components, n \in Deltas :
    /\ ops < MaxOps
    /\ time' = Setter(cls, component, time, time[component] + n)
    /\ op' = [name |-> "assign", component |-> component, n |-> n,
              value |-> NoValue]
    /\ before' = time
    /\ ops' = ops + 1
    /\ undoes' = (op.name = "assign" /\ op.component = component
                    /\ op.n = 0 - n)
    /\ UNCHANGED cls
    /\ UNCHANGED <<codecVars, emitterVars, bufferVars>>

NextTime ==
  \/ from_call
  \/ set_call
  \/ assign

SpecTime == InitTime /\ [][NextTime]_vars

\* TimeValue.toSeconds of the fields
toSeconds(t) == (t.hours * 60 + t.minutes) * 60 + t.seconds

MAX_SECONDS == 24 * 60 * 60

SecondsPer(component) ==
  CASE component = "hours" -> 60 * 60
    [] component = "minutes" -> 60
    [] component = "seconds" -> 1

InClockRange(t) ==
  /\ t.hours \in 0..23
  /\ t.minutes \in 0..59
  /\ t.seconds \in 0..59

AssignStep ==
  (op'.name = "assign" /\ cls = "TimeValue") =>
    /\ InClockRange(time')
    /\ toSeconds(time')
         = (toSeconds(time) + op'.n * SecondsPer(op'.component)) % MAX_SECONDS
    /\ (undoes' => time' = before)

C20_SetEqualsFrom ==
  op.name = "set" => time = from(cls, op.value)

\* C30: a TimeValue keeps 0 <= hours <= 23, 0 <= minutes <= 59 and
\* 0 <= seconds <= 59 through from, set and component assignments with integer
\* arguments of either sign and any size.
C30_ClockRange ==
  cls = "TimeValue" =>
    /\ 0 <= time.hours /\ time.hours <= 23
    /\ 0 <= time.minutes /\ time.minutes <= 59
    /\ 0 <= time.seconds /\ time.seconds <= 59

\* A TimeValue at 02:02:01 after set({hours: 25, minutes: 61, seconds: 61}),
\* each component carried into the next, on an object that held the fields
\* minutes -= 100000 gives a TimeValue at hh:05:00.
C30_Witness ==
  /\ cls = "TimeValue"
  /\ ops >= 2
  /\ op.name = "set" /\ op.value = TimeObject(25, 61, 61)
  /\ time = [hours |-> 2, minutes |-> 2, seconds |-> 1]
  /\ \E hours \in 0..23 :
       before = TimeValue_minutes([hours |-> hours, minutes |-> 5, seconds |-> 0],
                                  5 - 100000)

\* One buffer: its constructor, push and reset, and what forEach, map, get and
\* toArray return at every state.  The array is a sequence whose element k + 1
\* is the code's element k; a hole of Array(capacity) reads as Undefined.
MaxCapacity == 3     \* largest capacity constructed
MaxPushes == 5       \* most values pushed between two resets
MaxArgs == 2         \* most values one push is given
MaxResets == 1       \* most resets followed

\* the values pushed
Items == {7, 8, 9}

\* the argument lists of one push
RECURSIVE ItemLists(_)
ItemLists(n) ==
  IF n = 0 THEN {<<>>}
  ELSE {<<>>} \cup {<<item>> \o rest : item \in Items, rest \in ItemLists(n - 1)}

\* Array(capacity)
Array(capacity) == [k \in 1..capacity |-> Undefined]

\* the object's fields
This ==
  [_capacity |-> _capacity, _buffer |-> _buffer, _position |-> _position,
   _full |-> _full]

\* pushValue(value)
pushValue(this, value) ==
  [this EXCEPT
     !._buffer = [this._buffer EXCEPT ![this._position + 1] = value],
     !._full = (this._full \/ this._position = this._capacity - 1),
     !._position = (this._position + 1) % this._capacity]

\* push(...values): pushValue of each value in turn
RECURSIVE PushAll(_, _)
PushAll(this, values) ==
  IF values = <<>> THEN this
  ELSE PushAll(pushValue(this, Head(values)), Tail(values))

\* getStartIndexAndSize that starts at element 0 whether or not the array has
\* been filled.
getStartIndexAndSize_FromZero(this) ==
  IF this._full THEN <<0, this._capacity>> ELSE <<0, this._position>>

\* getStartIndexAndSize(): [startIndex, size]
getStartIndexAndSize(this) ==
  IF this._full THEN <<this._position, this._capacity>>
  ELSE <<0, this._position>>

\* this.buffer[(startIndex + n) % size]
ElementAt(this, n) ==
  this._buffer[((getStartIndexAndSize(this)[1] + n)
                  % getStartIndexAndSize(this)[2]) + 1]

\* toArray()
toArray(this) ==
  [k \in 1..getStartIndexAndSize(this)[2] |-> ElementAt(this, k - 1)]

\* get(n)
get(this, n) ==
  IF n < 0 \/ n >= getStartIndexAndSize(this)[2] THEN Undefined
  ELSE ElementAt(this, n)

\* map(callback): output[n] = callback(value, n); the callback is a function
\* of the pair <<value, n>>
map(this, callback) ==
  [k \in 1..getStartIndexAndSize(this)[2] |->
     callback[<<ElementAt(this, k - 1), k - 1>>]]

\* forEach(callback): the arguments of the calls of callback, in order
forEach(this) ==
  [k \in 1..getStartIndexAndSize(this)[2] |-> <<ElementAt(this, k - 1), k - 1>>]

\* new CircularBuffer(capacity), capacity >= 1
InitBuffer ==
  /\ _capacity \in 1..MaxCapacity
  /\ _buffer = Array(_capacity)
  /\ _position = 0
  /\ _full = FALSE
  /\ pushed = <<>>
  /\ resets = 0
  /\ CodecIdle /\ EmitterIdle /\ TimeIdle

\* push(...values)
CircularBuffer_push ==
  \E values \in ItemLists(MaxArgs) :
    /\ Len(pushed) + Len(values) <= MaxPushes
    /\ _buffer' = PushAll(This, values)._buffer
    /\ _position' = PushAll(This, values)._position
    /\ _full' = PushAll(This, values)._full
    /\ pushed' = pushed \o values
    /\ UNCHANGED <<_capacity, resets>>
    /\ UNCHANGED <<codecVars, emitterVars, timeVars>>

\* reset()
CircularBuffer_reset ==
  /\ resets < MaxResets
  /\ _buffer' = Array(_capacity)
  /\ _position' = 0
  /\ _full' = FALSE
  /\ pushed' = <<>>
  /\ resets' = resets + 1
  /\ UNCHANGED _capacity
  /\ UNCHANGED <<codecVars, emitterVars, timeVars>>

NextBuffer ==
  \/ CircularBuffer_push
  \/ CircularBuffer_reset

SpecBuffer == InitBuffer /\ [][NextBuffer]_vars

\* The last n elements of the sequence, all of it when it has fewer.
Last(seq, n) ==
  IF Len(seq) <= n THEN seq ELSE SubSeq(seq, Len(seq) - n + 1, Len(seq))

\* The values the buffer should hold: the last capacity values pushed since
\* the last reset, oldest first.
Kept == Last(pushed, _capacity)

\* A callback of map that returns its two arguments.
Pairing ==
  [pair \in (Items \cup {Undefined}) \X (0..MaxCapacity) |-> pair]

====
